---- MODULE Spec2Model ----
(***************************************************************************)
(* VectorEmbeddingLibrary: the similarity-search core                      *)
(* (src/src/VectorEmbeddingLibrary/similarity_search.py).                  *)
(*                                                                         *)
(* Two backends, AstraDBSimilaritySearch and PostgreSQLSimilaritySearch,   *)
(* expose index_vector, index_vectors and query_similar.  The store behind *)
(* each backend is an external collaborator: every call made to it either  *)
(* succeeds or raises, which the actions take as an input.                 *)
(***************************************************************************)
EXTENDS Integers, Sequences, FiniteSets, TLC


(***************************************************************************)
(* IEEE-754 binary64 arithmetic, as numpy performs it in cosine_similarity.*)
(* Natural numbers too wide for a machine integer are little-endian bit    *)
(* tuples without leading zeros.                                           *)
(***************************************************************************)
MantBits == 53
LoBits == 27
LimbBits == 13

Max(S) == CHOOSE x \in S : \A y \in S : y <= x

Bits(n) == [i \in 1..(CHOOSE k \in 0..31 : n < 2 ^ k /\ (k = 0 \/ n >= 2 ^ (k - 1))) |->
               (n \div 2 ^ (i - 1)) % 2]

RECURSIVE BitsToInt(_)
BitsToInt(a) ==
    IF Len(a) = 0 THEN 0
    ELSE IF Len(a) = 1 THEN a[1]
    ELSE LET h == Len(a) \div 2
         IN  BitsToInt(SubSeq(a, 1, h)) + 2 ^ h * BitsToInt(SubSeq(a, h + 1, Len(a)))

Trim(a) ==
    LET ones == {i \in 1..Len(a) : a[i] = 1}
    IN  IF ones = {} THEN <<>> ELSE SubSeq(a, 1, Max(ones))

Bit(a, i) == IF i >= 1 /\ i <= Len(a) THEN a[i] ELSE 0

ShiftLeft(a, k) == IF a = <<>> THEN a ELSE [i \in 1..k |-> 0] \o a

ShiftRight(a, k) == IF k >= Len(a) THEN <<>> ELSE SubSeq(a, k + 1, Len(a))

\* -1, 0 or 1 as a < b, a = b or a > b
BigCmp(a, b) ==
    LET n    == IF Len(a) > Len(b) THEN Len(a) ELSE Len(b)
        diff == {i \in 1..n : Bit(a, i) # Bit(b, i)}
    IN  IF diff = {} THEN 0
        ELSE IF Bit(a, Max(diff)) = 1 THEN 1 ELSE -1

Limbs(a) ==
    [j \in 1..((Len(a) + LimbBits - 1) \div LimbBits) |->
        BitsToInt(SubSeq(a, LimbBits * (j - 1) + 1,
                         IF LimbBits * j < Len(a) THEN LimbBits * j ELSE Len(a)))]

RECURSIVE SumTo(_, _)
SumTo(f, n) == IF n = 0 THEN 0 ELSE f[n] + SumTo(f, n - 1)

\* the limbs of the sum of the columns col[1..n], carry c coming in at j
RECURSIVE Carry(_, _, _)
Carry(col, j, c) ==
    IF j > Len(col) THEN <<>>
    ELSE LET t == col[j] + c
         IN  <<t % 2 ^ LimbBits>> \o Carry(col, j + 1, t \div 2 ^ LimbBits)

BigMul(a, b) ==
    LET x   == Limbs(a)
        y   == Limbs(b)
        col == [j \in 1..(Len(x) + Len(y)) |->
                   SumTo([i \in 1..Len(x) |->
                             IF j - i + 1 >= 1 /\ j - i + 1 <= Len(y)
                             THEN x[i] * y[j - i + 1] ELSE 0], Len(x))]
        l   == Carry(col, 1, 0)
    IN  Trim([i \in 1..(LimbBits * Len(l)) |->
                 (l[(i - 1) \div LimbBits + 1] \div 2 ^ ((i - 1) % LimbBits)) % 2])

\* a + 1
BigInc(a) ==
    LET zeros == {i \in 1..Len(a) : a[i] = 0}
        z     == IF zeros = {} THEN Len(a) + 1
                 ELSE CHOOSE i \in zeros : \A k \in zeros : i <= k
    IN  [i \in 1..(IF z > Len(a) THEN z ELSE Len(a)) |->
            IF i < z THEN 0 ELSE IF i = z THEN 1 ELSE a[i]]

\* the largest r with r * r <= num that extends r by bits i down to
\* stop + 1: the bits of floor(sqrt(num)), one at a time
RECURSIVE SqrtSearch(_, _, _, _)
SqrtSearch(num, r, i, stop) ==
    IF i = stop THEN r
    ELSE LET c == [r EXCEPT ![i] = 1]
         IN  IF BigCmp(BigMul(c, c), num) <= 0
             THEN SqrtSearch(num, c, i - 1, stop)
             ELSE SqrtSearch(num, r, i - 1, stop)

\* floor(sqrt(num)), the bits found one limb after the other
RECURSIVE SqrtLimbs(_, _, _)
SqrtLimbs(num, r, i) ==
    IF i = 0 \/ Len(r) = 0 THEN r
    ELSE LET stop == IF i > LimbBits THEN i - LimbBits ELSE 0
         IN  SqrtLimbs(num, SqrtSearch(num, r, i, stop), stop)

\* the largest q with q * d <= num that extends q by bits i down to
\* stop + 1: the bits of floor(num / d), one at a time
RECURSIVE DivSearch(_, _, _, _, _)
DivSearch(num, d, q, i, stop) ==
    IF i = stop THEN q
    ELSE LET c == [q EXCEPT ![i] = 1]
         IN  IF BigCmp(BigMul(c, d), num) <= 0
             THEN DivSearch(num, d, c, i - 1, stop)
             ELSE DivSearch(num, d, q, i - 1, stop)

\* floor(num / d), the bits found one limb after the other
RECURSIVE DivLimbs(_, _, _, _)
DivLimbs(num, d, q, i) ==
    IF i = 0 \/ Len(q) = 0 THEN q
    ELSE LET stop == IF i > LimbBits THEN i - LimbBits ELSE 0
         IN  DivLimbs(num, d, DivSearch(num, d, q, i, stop), stop)

\* a + b
BigAdd(a, b) ==
    LET n        == 1 + (IF Len(a) > Len(b) THEN Len(a) ELSE Len(b))
        carry(i) == \E j \in 1..(i - 1) :
                        /\ Bit(a, j) = 1 /\ Bit(b, j) = 1
                        /\ \A k \in (j + 1)..(i - 1) : Bit(a, k) + Bit(b, k) >= 1
    IN  Trim([i \in 1..n |->
                 (Bit(a, i) + Bit(b, i) + (IF carry(i) THEN 1 ELSE 0)) % 2])

\* a - b for a >= b
BigSub(a, b) ==
    LET borrow(i) == \E j \in 1..(i - 1) :
                        /\ Bit(a, j) = 0 /\ Bit(b, j) = 1
                        /\ \A k \in (j + 1)..(i - 1) : Bit(a, k) <= Bit(b, k)
    IN  Trim([i \in 1..Len(a) |->
                 (Bit(a, i) + Bit(b, i) + (IF borrow(i) THEN 1 ELSE 0)) % 2])

\* 2^k
Pow2(k) == [i \in 1..(k + 1) |-> IF i = k + 1 THEN 1 ELSE 0]

(***************************************************************************)
(* Python numbers and numpy scalars.  A number is sign * m * 2^e: a Python *)
(* int or an int64 has e = 0; a float or a float64 is zero, inf, nan or a  *)
(* number whose m is odd and at most 53 bits long, so that equal values    *)
(* are equal records.  Zeros are signed, as in binary64.                   *)
(***************************************************************************)
FlNaN == [t |-> "float", cls |-> "nan", sign |-> 1, m |-> <<>>, e |-> 0]
FlInf(sign) == [t |-> "float", cls |-> "inf", sign |-> sign, m |-> <<>>, e |-> 0]
FlZero(sign) == [t |-> "float", cls |-> "zero", sign |-> sign, m |-> <<>>, e |-> 0]
FlOne == [t |-> "float", cls |-> "num", sign |-> 1, m |-> <<1>>, e |-> 0]

\* the float sign * 2^k, k in -1074..1023
FlPow2(sign, k) == [t |-> "float", cls |-> "num", sign |-> sign, m |-> <<1>>, e |-> k]

\* the int sign * m
PyInt(sign, m) ==
    [t |-> "int", cls |-> IF m = <<>> THEN "zero" ELSE "num",
     sign |-> IF m = <<>> THEN 1 ELSE sign, m |-> m, e |-> 0]

\* the Python int n, |n| < 2^31
Num(n) == PyInt(IF n < 0 THEN -1 ELSE 1, Bits(IF n < 0 THEN -n ELSE n))

MinExp == -1074
MaxExp == 1023

\* The binary64 nearest to sign * q * 2^e, q > 0, ties to even (sticky: a
\* nonzero part was already dropped below q): a subnormal or a zero on
\* underflow, inf on overflow.
FlRound(sign, q, sticky, e) ==
    LET sh   == Max({Len(q) - MantBits, MinExp - e, 0})
        top  == ShiftRight(q, sh)
        rb   == Bit(q, sh)
        st   == sticky \/ (\E i \in 1..(sh - 1) : Bit(q, i) = 1)
        up   == rb = 1 /\ (st \/ Bit(top, 1) = 1)
        m    == IF up THEN BigInc(top) ELSE top
        tz   == (CHOOSE i \in 1..Len(m) : m[i] = 1 /\ \A k \in 1..(i - 1) : m[k] = 0) - 1
    IN  IF m = <<>> THEN FlZero(sign)
        ELSE IF e + sh + Len(m) - 1 > MaxExp THEN FlInf(sign)
        ELSE [t |-> "float", cls |-> "num", sign |-> sign,
              m |-> ShiftRight(m, tz), e |-> e + sh + tz]

\* astype(float) of an int64, float(x) of a Python number
ToFloat(x) ==
    IF x.t = "float" THEN x
    ELSE IF x.cls = "zero" THEN FlZero(1)
    ELSE FlRound(x.sign, x.m, FALSE, 0)

\* x * y on float64
FlMul(x, y) ==
    LET s == x.sign * y.sign
    IN  IF x.cls = "nan" \/ y.cls = "nan" THEN FlNaN
        ELSE IF {x.cls, y.cls} = {"inf", "zero"} THEN FlNaN
        ELSE IF "inf" \in {x.cls, y.cls} THEN FlInf(s)
        ELSE IF "zero" \in {x.cls, y.cls} THEN FlZero(s)
        ELSE FlRound(s, BigMul(x.m, y.m), FALSE, x.e + y.e)

\* a summand this many binary places below the other does not change it
Far == 64

\* x + y on float64
FlAdd(x, y) ==
    IF x.cls = "nan" \/ y.cls = "nan" THEN FlNaN
    ELSE IF x.cls = "inf" /\ y.cls = "inf" THEN IF x.sign = y.sign THEN x ELSE FlNaN
    ELSE IF x.cls = "inf" THEN x
    ELSE IF y.cls = "inf" THEN y
    ELSE IF x.cls = "zero" /\ y.cls = "zero"
         THEN FlZero(IF x.sign = -1 /\ y.sign = -1 THEN -1 ELSE 1)
    ELSE IF x.cls = "zero" THEN y
    ELSE IF y.cls = "zero" THEN x
    ELSE LET gap == (x.e + Len(x.m)) - (y.e + Len(y.m))
             e0  == IF x.e < y.e THEN x.e ELSE y.e
             a   == ShiftLeft(x.m, x.e - e0)
             b   == ShiftLeft(y.m, y.e - e0)
             c   == BigCmp(a, b)
         IN  IF gap > Far THEN x
             ELSE IF -gap > Far THEN y
             ELSE IF x.sign = y.sign THEN FlRound(x.sign, BigAdd(a, b), FALSE, e0)
             ELSE IF c = 0 THEN FlZero(1)
             ELSE IF c > 0 THEN FlRound(x.sign, BigSub(a, b), FALSE, e0)
             ELSE FlRound(y.sign, BigSub(b, a), FALSE, e0)

\* np.sqrt(x) on float64
FlSqrt(x) ==
    IF x.cls = "nan" \/ (x.sign = -1 /\ x.cls # "zero") THEN FlNaN
    ELSE IF x.cls \in {"inf", "zero"} THEN x
    \* an even power of two has an exact root
    ELSE IF x.m = <<1>> /\ x.e % 2 = 0 THEN FlPow2(1, x.e \div 2)
    ELSE LET s0  == 2 * MantBits + 2 - Len(x.m)
             s   == IF (x.e - s0) % 2 = 0 THEN s0 ELSE s0 + 1
             num == ShiftLeft(x.m, s)
             n   == (Len(num) + 1) \div 2
             r   == Trim(SqrtLimbs(num, [i \in 1..n |-> 0], n))
         IN  FlRound(1, r, BigCmp(BigMul(r, r), num) # 0, (x.e - s) \div 2)

\* x / y on float64: numpy divides by zero without raising
FlDiv(x, y) ==
    LET s == x.sign * y.sign
    IN  IF x.cls = "nan" \/ y.cls = "nan" THEN FlNaN
        ELSE IF x.cls = y.cls /\ x.cls \in {"inf", "zero"} THEN FlNaN
        ELSE IF x.cls = "inf" \/ y.cls = "zero" THEN FlInf(s)
        ELSE IF x.cls = "zero" \/ y.cls = "inf" THEN FlZero(s)
        \* dividing by a power of two only moves the exponent
        ELSE IF y.m = <<1>> THEN FlRound(s, x.m, FALSE, x.e - y.e)
        ELSE LET t   == MantBits + 2 + Len(y.m)
                 num == ShiftLeft(x.m, t)
                 n   == Len(num) - Len(y.m) + 1
                 q   == Trim(DivLimbs(num, y.m, [i \in 1..n |-> 0], n))
             IN  FlRound(s, q, BigCmp(BigMul(q, y.m), num) # 0, x.e - t - y.e)

\* x + y on Python ints
IntAdd(x, y) ==
    IF x.sign = y.sign THEN PyInt(x.sign, BigAdd(x.m, y.m))
    ELSE IF BigCmp(x.m, y.m) >= 0 THEN PyInt(x.sign, BigSub(x.m, y.m))
    ELSE PyInt(y.sign, BigSub(y.m, x.m))

\* the int64 congruent to x modulo 2^64: integer arithmetic on int64
\* arrays wraps around without raising
Int64(x) ==
    LET low == Trim(SubSeq(x.m, 1, IF Len(x.m) < 64 THEN Len(x.m) ELSE 64))
    IN  IF x.sign = 1
        THEN IF Bit(low, 64) = 1 THEN PyInt(-1, BigSub(Pow2(64), low)) ELSE PyInt(1, low)
        ELSE IF BigCmp(low, Pow2(63)) > 0 THEN PyInt(1, BigSub(Pow2(64), low))
             ELSE PyInt(-1, low)

(***************************************************************************)
(* Python values.  A vector argument is any Python object: a list (of      *)
(* numbers or not) or something else; a metadata argument is a dict (with  *)
(* or without the key 'id') or something else.                             *)
(***************************************************************************)
NonNumeric == [t |-> "str", cls |-> "zero", sign |-> 1, m |-> <<>>, e |-> 0]

PyList(items) == [type |-> "list", items |-> items]
NotAList == [type |-> "str", items |-> <<>>]

PyDict(keys, id) == [type |-> "dict", keys |-> keys, id |-> id]
NotADict == [type |-> "str", keys |-> {}, id |-> ""]

\* the numbers of a list of small Python ints
Ints(v) == [i \in DOMAIN v |-> Num(v[i])]

ListOf(v) == PyList(Ints(v))

\* 2**32, whose square does not fit an int64
Big == PyInt(1, Pow2(32))
\* 2.0**500, about 1e150: its square is finite
Large == FlPow2(1, 500)
\* 2.0**600, about 1e180: its square overflows to inf
Huge == FlPow2(1, 600)
\* 2.0**-600: its square underflows to 0.0
Tiny == FlPow2(1, -600)

\* the lists of small ints the callers pass: empty, one- and
\* two-dimensional, of zero norm, of integral norm and of irrational norm,
\* opposite ones
SmallVectors == {<<>>, <<1>>, <<0, 0>>, <<1, 0>>, <<0, 1>>, <<1, 1>>, <<-1, 0>>}

\* lists that the validation accepts as well: a large int, large and small
\* floats, an infinite float, ints next to floats.  (Python ints of 2**63 and
\* more, for which numpy leaves int64, are not among them.)
ExtremeVectors ==
    {<<Big>>, <<Huge>>, <<Tiny>>, <<FlInf(1)>>, <<Large, Num(0)>>, <<Huge, Num(0)>>}

\* the numeric lists the callers pass
Vectors == {Ints(v) : v \in SmallVectors} \cup ExtremeVectors

Ids == {"a", "b"}

\* the arguments of the callers that pass small ints, or no list of numbers
VectorArgs ==
    {ListOf(v) : v \in SmallVectors} \cup {NotAList, PyList(<<Num(1), NonNumeric>>)}

\* the arguments of the callers that pass numbers of any size
NumberArgs == {PyList(v) : v \in Vectors}

MetadataArgs ==
    {PyDict({"id"}, x) : x \in Ids} \cup {PyDict({"name"}, ""), NotADict}

Values(vector) == vector.items

(***************************************************************************)
(* cosine_similarity: np.dot(v1, v2) / (np.linalg.norm(v1) *               *)
(* np.linalg.norm(v2)) on v1 = np.array(v1), v2 = np.array(v2).  np.array  *)
(* makes an int64 array of a list whose elements are all Python ints, a    *)
(* float64 array as soon as one is a float (or the list is empty).         *)
(***************************************************************************)
IsFloatArray(v) == v = <<>> \/ \E i \in DOMAIN v : v[i].t = "float"

\* the float64 dot product: the products are added one after the other to
\* 0.0
RECURSIVE FloatDot(_, _, _, _)
FloatDot(v1, v2, i, acc) ==
    IF i > Len(v1) THEN acc
    ELSE FloatDot(v1, v2, i + 1, FlAdd(acc, FlMul(ToFloat(v1[i]), ToFloat(v2[i]))))

\* the sum of the products of two lists of ints, not yet reduced to int64
RECURSIVE IntDot(_, _, _, _)
IntDot(v1, v2, i, acc) ==
    IF i > Len(v1) THEN acc
    ELSE IntDot(v1, v2, i + 1,
                IntAdd(acc, PyInt(v1[i].sign * v2[i].sign, BigMul(v1[i].m, v2[i].m))))

\* np.dot(v1, v2) on lists of one length: an int64 on two int64 arrays,
\* wrapping around; a float64 otherwise
Dot(v1, v2) ==
    IF IsFloatArray(v1) \/ IsFloatArray(v2) THEN FloatDot(v1, v2, 1, FlZero(1))
    ELSE Int64(IntDot(v1, v2, 1, PyInt(1, <<>>)))

\* np.linalg.norm(v): sqrt(x.dot(x)) on x = array(v).astype(float)
Norm(v) == FlSqrt(FloatDot(v, v, 1, FlZero(1)))

\* np.dot raises ValueError("shapes ... not aligned") on lists of
\* different lengths
ShapesAligned(v1, v2) == Len(v1) = Len(v2)

\* the quotient as numpy computes it; no step raises, a zero or infinite
\* norm, an overflow or an underflow gives nan, inf or a zero
Similarity(v1, v2) == FlDiv(ToFloat(Dot(v1, v2)), FlMul(Norm(v1), Norm(v2)))

\* the vectors of the stores that are ranked: two orthogonal directions
\* and a multiple of the first whose norm overflows
TieVectors == {Ints(<<1, 0>>), Ints(<<0, 1>>), <<Huge, Num(0)>>}

\* the queries that rank them: the first direction and a large multiple of
\* it
TieArgs == {ListOf(<<1, 0>>), PyList(<<Large, Num(0)>>)}

\* the similarities of the lists of the model that np.dot accepts, computed
\* once
SimilarityTable ==
    [p \in {q \in (Vectors \cup TieVectors) \X (Vectors \cup TieVectors) :
               ShapesAligned(q[1], q[2])} |-> Similarity(p[1], p[2])] @@ <<>>

cosine_similarity(v1, v2) == SimilarityTable[<<v1, v2>>]

\* 0 for a zero of either sign
Sgn(x) == IF x.cls = "zero" THEN 0 ELSE x.sign

\* |x| < |y| for nonzero x and y, none of them nan
MagLt(x, y) ==
    IF y.cls = "inf" THEN x.cls # "inf"
    ELSE IF x.cls = "inf" THEN FALSE
    ELSE LET ex == x.e + Len(x.m)
             ey == y.e + Len(y.m)
             e0 == IF x.e < y.e THEN x.e ELSE y.e
         IN  \/ ex < ey
             \/ ex = ey /\ BigCmp(ShiftLeft(x.m, x.e - e0), ShiftLeft(y.m, y.e - e0)) < 0

\* x < y on floats: False whenever one of them is nan; -0.0 < 0.0 is False
FlLt(x, y) ==
    /\ x.cls # "nan" /\ y.cls # "nan"
    /\ \/ Sgn(x) < Sgn(y)
       \/ Sgn(x) = 1 /\ Sgn(y) = 1 /\ MagLt(x, y)
       \/ Sgn(x) = -1 /\ Sgn(y) = -1 /\ MagLt(y, x)

(***************************************************************************)
(* list.sort(key=lambda x: x[1], reverse=True) of CPython for fewer than   *)
(* 64 elements: reverse, find the leading run, binary insertion sort of    *)
(* the rest, reverse.  Only "<" on the keys is used.                       *)
(***************************************************************************)
Reverse(s) == [i \in 1..Len(s) |-> s[Len(s) + 1 - i]]

\* length of the run starting at s[1]: strictly descending when desc,
\* non-descending otherwise
RECURSIVE RunLength(_, _, _)
RunLength(s, desc, n) ==
    IF n >= Len(s) THEN n
    ELSE IF FlLt(s[n + 1].score, s[n].score) = desc THEN RunLength(s, desc, n + 1)
    ELSE n

\* binary search of the insertion point of pivot in s[l..r-1]
RECURSIVE InsertionPoint(_, _, _, _)
InsertionPoint(s, pivot, l, r) ==
    IF l >= r THEN l
    ELSE LET p == l + (r - l) \div 2
         IN  IF FlLt(pivot.score, s[p].score)
             THEN InsertionPoint(s, pivot, l, p)
             ELSE InsertionPoint(s, pivot, p + 1, r)

RECURSIVE BinarySort(_, _)
BinarySort(s, start) ==
    IF start > Len(s) THEN s
    ELSE LET l == InsertionPoint(s, s[start], 1, start)
         IN  BinarySort(SubSeq(s, 1, l - 1) \o <<s[start]>> \o SubSeq(s, l, start - 1)
                          \o SubSeq(s, start + 1, Len(s)),
                        start + 1)

\* s with the elements at positions i..j in reverse order
ReverseSlice(s, i, j) ==
    [k \in 1..Len(s) |-> IF i <= k /\ k <= j THEN s[i + j - k] ELSE s[k]]

\* the interpreters the library runs on: list.sort finds the leading run
\* as count_run of CPython 3.12 and before does, or as count_run of
\* CPython 3.13 and later does.  They order the same lists differently
\* only when a key is nan.
Interpreters == {"3.12", "3.13"}

\* REVERSE_LAST_NEQ: the last neq + 1 of the first n elements are equal
\* and are put back in their order in the list
ReverseLastNeq(s, n, neq) == IF neq = 0 THEN s ELSE ReverseSlice(s, n - neq, n)

\* count_run of CPython 3.13, the descending part: the first n elements
\* are a descending run whose last neq + 1 elements are equal
RECURSIVE DescendingRun(_, _, _)
DescendingRun(s, n, neq) ==
    IF n >= Len(s) THEN [keys |-> ReverseLastNeq(s, n, neq), n |-> n]
    ELSE IF FlLt(s[n + 1].score, s[n].score)
    THEN DescendingRun(ReverseLastNeq(s, n, neq), n + 1, 0)
    ELSE IF FlLt(s[n].score, s[n + 1].score)
    THEN [keys |-> ReverseLastNeq(s, n, neq), n |-> n]
    ELSE DescendingRun(s, n + 1, neq + 1)

\* count_run on a list of two elements or more: the length n of the leading
\* run and the list with that run made ascending
count_run(s, py) ==
    IF py = "3.12"
    THEN LET desc == FlLt(s[2].score, s[1].score)
             n    == RunLength(s, desc, 2)
         IN  [keys |-> IF desc THEN ReverseSlice(s, 1, n) ELSE s, n |-> n]
    ELSE LET n1 == RunLength(s, FALSE, 1)
         IN  IF n1 = Len(s) \/ (n1 > 1 /\ FlLt(s[1].score, s[n1].score))
             THEN [keys |-> s, n |-> n1]
             ELSE LET d  == DescendingRun(IF n1 > 1 THEN ReverseSlice(s, 1, n1) ELSE s,
                                          n1 + 1, 0)
                      s2 == ReverseSlice(d.keys, 1, d.n)
                  IN  [keys |-> s2, n |-> RunLength(s2, FALSE, d.n)]

\* list.sort(key=score) of a list shorter than 64: the leading run, then
\* binary insertion of the other elements
SortAscending(s, py) ==
    IF Len(s) < 2 THEN s
    ELSE LET run == count_run(s, py)
         IN  BinarySort(run.keys, run.n + 1)

\* list.sort(key=score, reverse=True): the list is reversed, sorted and
\* reversed again
SortDescending(s, py) == Reverse(SortAscending(Reverse(s), py))

\* a slice that takes a negative top_k as 'no limit'
SliceNoLimit(s, k) == IF k < 0 THEN s ELSE SubSeq(s, 1, IF k < Len(s) THEN k ELSE Len(s))

\* results[:top_k]
Slice(s, k) ==
    LET n == IF k >= 0 THEN (IF k < Len(s) THEN k ELSE Len(s))
             ELSE (IF Len(s) + k > 0 THEN Len(s) + k ELSE 0)
    IN  SubSeq(s, 1, n)

(***************************************************************************)
(* The store collaborators.  A PostgreSQL connection holds the committed   *)
(* rows of the table "vectors" and the rows inserted by its open           *)
(* transaction; a Cassandra session applies each insert at once, keyed by  *)
(* id.  Every call to the store either succeeds or raises: which one is    *)
(* the environment's choice, handed to the operations as env.              *)
(***************************************************************************)
MaxRows == 2
MaxTopK == 2
MaxBatch == 4

Msgs == {"Duplicate ID", "connection lost"}
RollbackMsg == "connection already closed"

NoFault == [at |-> "none", msg |-> "", rollback |-> FALSE, rows |-> <<>>]

Fault(at, msg, rollback) == [at |-> at, msg |-> msg, rollback |-> rollback, rows |-> <<>>]

\* one call made to the store: the statement, the row it inserts, whether
\* it raised and with what message, the rows it handed back
Call(call, stmt, params, env, rows) ==
    [call |-> call, stmt |-> stmt, params |-> params,
     raised |-> env.at = call, msg |-> IF env.at = call THEN env.msg ELSE "",
     rows |-> rows]

Db(table, txn) == [table |-> table, txn |-> txn]

\* connection.cursor() ... cursor.execute(INSERT, (id, vector))
Execute_insert(db, row) == Db(db.table, Append(db.txn, row))

\* connection.commit()
Commit(db) == Db(db.table \o db.txn, <<>>)

\* an except clause that raises without calling connection.rollback()
RollbackMissing(db) == db

\* connection.rollback(); a rollback that raises has lost the connection,
\* and the server discards the transaction as well
Rollback(db) == Db(db.table, <<>>)

\* the rows a SELECT on the connection sees
Fetchall(db) == db.table \o db.txn

\* session.execute(INSERT ...): CQL writes the row with that primary key
Upsert(db, row) ==
    IF \E i \in 1..Len(db.table) : db.table[i].id = row.id
    THEN Db([i \in 1..Len(db.table) |->
                IF db.table[i].id = row.id THEN row ELSE db.table[i]], db.txn)
    ELSE Db(Append(db.table, row), db.txn)

Outcome(db, exc, msg, log, result) ==
    [db |-> db, exc |-> exc, msg |-> msg, log |-> log, result |-> result]

(***************************************************************************)
(* Data validation, the same four lines in both backends.                  *)
(***************************************************************************)
IsNumber(x) == x.t \in {"int", "float"}

IsListOfNumbers(vector) ==
    vector.type = "list" /\ \A i \in DOMAIN vector.items : IsNumber(vector.items[i])

\* a check of the type of metadata that forgets the 'id' key
IsDict(metadata) == metadata.type = "dict"

IsDictWithId(metadata) == metadata.type = "dict" /\ "id" \in metadata.keys

\* a query_similar without the emptiness check
NeverEmpty(vector) == FALSE

IsEmpty(vector) == Len(vector.items) = 0

VectorMsg == <<"Vector must be a list of numbers.">>
MetadataMsg == <<"Metadata must be a dictionary with an 'id' key.">>
EmptyMsg == <<"Vector must not be empty.">>
ShapesMsg == <<"shapes not aligned">>

(***************************************************************************)
(* index_vector                                                            *)
(***************************************************************************)
\* an index_vector that executes the INSERT a second time when it raised
AstraDB_index_vector_retry(db, vector, metadata, env) ==
    IF ~IsListOfNumbers(vector)
    THEN Outcome(db, "ValueError", VectorMsg, <<>>, <<>>)
    ELSE IF ~IsDictWithId(metadata)
    THEN Outcome(db, "ValueError", MetadataMsg, <<>>, <<>>)
    ELSE LET row == [id |-> metadata.id, vector |-> Values(vector)]
             exe == Call("execute", "INSERT", <<row>>, env, <<>>)
         IN  IF env.at = "execute"
             THEN Outcome(db, "RuntimeError", <<"Failed to index vector: ", env.msg>>,
                          <<exe, exe>>, <<>>)
             ELSE Outcome(Upsert(db, row), "none", <<>>, <<exe>>, <<>>)

AstraDB_index_vector(db, vector, metadata, env) ==
    IF ~IsListOfNumbers(vector)
    THEN Outcome(db, "ValueError", VectorMsg, <<>>, <<>>)
    ELSE IF ~IsDictWithId(metadata)
    THEN Outcome(db, "ValueError", MetadataMsg, <<>>, <<>>)
    ELSE LET row == [id |-> metadata.id, vector |-> Values(vector)]
             exe == Call("execute", "INSERT", <<row>>, env, <<>>)
         IN  IF env.at = "execute"
             THEN Outcome(db, "RuntimeError", <<"Failed to index vector: ", env.msg>>,
                          <<exe>>, <<>>)
             ELSE Outcome(Upsert(db, row), "none", <<>>, <<exe>>, <<>>)

PostgreSQL_index_vector(db, vector, metadata, env) ==
    IF ~IsListOfNumbers(vector)
    THEN Outcome(db, "ValueError", VectorMsg, <<>>, <<>>)
    ELSE IF ~IsDictWithId(metadata)
    THEN Outcome(db, "ValueError", MetadataMsg, <<>>, <<>>)
    ELSE LET row  == [id |-> metadata.id, vector |-> Values(vector)]
             cur  == Call("cursor", "", <<>>, env, <<>>)
             exe  == Call("execute", "INSERT", <<row>>, env, <<>>)
             com  == Call("commit", "", <<>>, env, <<>>)
             rb   == Call("rollback", "", <<>>,
                          IF env.rollback THEN Fault("rollback", RollbackMsg, TRUE)
                          ELSE NoFault, <<>>)
             db1  == IF env.at = "cursor" THEN db ELSE
                     IF env.at = "execute" THEN db ELSE Execute_insert(db, row)
             try  == IF env.at = "cursor" THEN <<cur>> ELSE
                     IF env.at = "execute" THEN <<cur, exe>> ELSE <<cur, exe, com>>
         IN  IF env.at = "none"
             THEN Outcome(Commit(db1), "none", <<>>, try, <<>>)
             ELSE IF env.rollback
             THEN Outcome(Rollback(db1), "StoreError", <<RollbackMsg>>,
                          Append(try, rb), <<>>)
             ELSE Outcome(Rollback(db1), "RuntimeError",
                          <<"Failed to index vector: ", env.msg>>, Append(try, rb), <<>>)

(***************************************************************************)
(* query_similar                                                           *)
(***************************************************************************)
\* results = [(id, cosine_similarity(vector, row.vector)) for row in rows]
results(v, rows) ==
    [i \in 1..Len(rows) |->
        [id |-> rows[i].id, score |-> cosine_similarity(v, rows[i].vector)]]

\* a ranking that consumes the rows it read: the store is left without them
RankConsuming(db, v, rows, top_k, log, py) ==
    IF \E i \in 1..Len(rows) : ~ShapesAligned(v, rows[i].vector)
    THEN Outcome(db, "ValueError", ShapesMsg, log, <<>>)
    ELSE Outcome(Db(<<>>, <<>>), "none", <<>>, log,
                 Slice(SortDescending(results(v, rows), py), top_k))

\* a ranking that raises when the store handed back no row
RankOrRaise(db, v, rows, top_k, log, py) ==
    IF rows = <<>>
    THEN Outcome(db, "RuntimeError", <<"Failed to query vectors: ", "no results">>, log, <<>>)
    ELSE IF \E i \in 1..Len(rows) : ~ShapesAligned(v, rows[i].vector)
    THEN Outcome(db, "ValueError", ShapesMsg, log, <<>>)
    ELSE Outcome(db, "none", <<>>, log,
                 Slice(SortDescending(results(v, rows), py), top_k))

\* results.sort(key=lambda x: x[1], reverse=True); return results[:top_k]
Rank(db, v, rows, top_k, log, py) ==
    IF \E i \in 1..Len(rows) : ~ShapesAligned(v, rows[i].vector)
    THEN Outcome(db, "ValueError", ShapesMsg, log, <<>>)
    ELSE Outcome(db, "none", <<>>, log,
                 Slice(SortDescending(results(v, rows), py), top_k))

AstraDB_query_similar(db, vector, top_k, env, py) ==
    IF ~IsListOfNumbers(vector)
    THEN Outcome(db, "ValueError", VectorMsg, <<>>, <<>>)
    ELSE IF IsEmpty(vector)
    THEN Outcome(db, "ValueError", EmptyMsg, <<>>, <<>>)
    ELSE LET exe == Call("execute", "SELECT", <<>>, env, env.rows)
         IN  IF env.at = "execute"
             THEN Outcome(db, "StoreError", <<env.msg>>, <<exe>>, <<>>)
             ELSE Rank(db, Values(vector), env.rows, top_k, <<exe>>, py)

PostgreSQL_query_similar(db, vector, top_k, env, py) ==
    IF ~IsListOfNumbers(vector)
    THEN Outcome(db, "ValueError", VectorMsg, <<>>, <<>>)
    ELSE IF IsEmpty(vector)
    THEN Outcome(db, "ValueError", EmptyMsg, <<>>, <<>>)
    ELSE LET cur == Call("cursor", "", <<>>, env, <<>>)
             exe == Call("execute", "SELECT", <<>>, env, <<>>)
             fet == Call("fetchall", "", <<>>, env,
                         IF env.at = "none" THEN Fetchall(db) ELSE <<>>)
             try == IF env.at = "cursor" THEN <<cur>> ELSE
                    IF env.at = "execute" THEN <<cur, exe>> ELSE <<cur, exe, fet>>
         IN  IF env.at # "none"
             THEN Outcome(db, "RuntimeError", <<"Failed to query vectors: ", env.msg>>,
                          try, <<>>)
             ELSE Rank(db, Values(vector), Fetchall(db), top_k, try, py)

(***************************************************************************)
(* The environment's choices.                                              *)
(***************************************************************************)
IndexFaults(b) ==
    IF b = "astra"
    THEN {NoFault} \cup {Fault("execute", m, FALSE) : m \in Msgs}
    ELSE {NoFault} \cup {Fault(at, m, r) :
                           at \in {"cursor", "execute", "commit"}, m \in Msgs,
                           r \in BOOLEAN}

\* what the ANN-ordered, limited SELECT may hand back: some of the table's
\* rows in the store's own order (tests use a store that ignores the limit)
AnnAnswers(table) ==
    {[i \in 1..Len(p) |-> table[p[i]]] :
        p \in {q \in UNION {[1..n -> 1..Len(table)] : n \in 0..Len(table)} :
                 \A i, j \in 1..Len(q) : i # j => q[i] # q[j]}}

QueryFaults(b, table) ==
    IF b = "astra"
    THEN {[NoFault EXCEPT !.rows = a] : a \in AnnAnswers(table)}
         \cup {Fault("execute", m, FALSE) : m \in Msgs}
    ELSE {NoFault} \cup {Fault(at, m, FALSE) :
                           at \in {"cursor", "execute", "fetchall"}, m \in Msgs}

index_vector(b, db, vector, metadata, env) ==
    IF b = "astra" THEN AstraDB_index_vector(db, vector, metadata, env)
    ELSE PostgreSQL_index_vector(db, vector, metadata, env)

\* a loop that catches the failure of an element, goes on with the next
\* ones and raises the first failure at the end
RECURSIVE index_vectors_all(_, _, _, _, _)
index_vectors_all(b, db, vectors_metadata, i, envs) ==
    IF i > Len(vectors_metadata) THEN Outcome(db, "none", <<>>, <<>>, <<>>)
    ELSE LET out  == index_vector(b, db, vectors_metadata[i].vector,
                                  vectors_metadata[i].metadata, envs[i])
             rest == index_vectors_all(b, out.db, vectors_metadata, i + 1, envs)
         IN  IF out.exc # "none"
             THEN [rest EXCEPT !.log = out.log \o @, !.exc = out.exc, !.msg = out.msg]
             ELSE [rest EXCEPT !.log = out.log \o @]

\* for vector, metadata in vectors_metadata: self.index_vector(vector, metadata)
\* from element i on; envs[i] is the environment's choice for element i
RECURSIVE index_vectors(_, _, _, _, _)
index_vectors(b, db, vectors_metadata, i, envs) ==
    IF i > Len(vectors_metadata) THEN Outcome(db, "none", <<>>, <<>>, <<>>)
    ELSE LET out == index_vector(b, db, vectors_metadata[i].vector,
                                 vectors_metadata[i].metadata, envs[i])
         IN  IF out.exc # "none" THEN out
             ELSE LET rest == index_vectors(b, out.db, vectors_metadata, i + 1, envs)
                  IN  [rest EXCEPT !.log = out.log \o @]

query_similar(b, db, vector, top_k, env, py) ==
    IF b = "astra" THEN AstraDB_query_similar(db, vector, top_k, env, py)
    ELSE PostgreSQL_query_similar(db, vector, top_k, env, py)

(***************************************************************************)
(* The state machine: one backend object and the calls made on it.         *)
(***************************************************************************)
VARIABLES
    backend,    \* which class main constructed: "astra" or "postgresql"
    table,      \* the rows the store holds (committed), in the store's order
    txn,        \* the rows inserted by the connection's open transaction
    last,       \* the call that returned last: arguments, outcome, store calls
    python,     \* the interpreters the process may be running on: those
                \* whose list.sort agrees with what its calls returned (a
                \* process runs on one interpreter from start to end)
    callers     \* the calls running at once on one relational instance:
                \* for each caller where it is in index_vector and what it holds

vars == <<backend, table, txn, last, callers, python>>

NoArg == [type |-> "none", items |-> <<>>, keys |-> {}, id |-> ""]

\* the row the call c persisted, when c is an index_vector that returned
Indexed(c) ==
    IF c.op = "index_vector" /\ c.exc = "none"
    THEN <<[id |-> c.metadata.id, vector |-> Values(c.vector)]>>
    ELSE <<>>

Record(op, vector, metadata, top_k, out, before, follows) ==
    [op |-> op, vector |-> vector, metadata |-> metadata, top_k |-> top_k,
     batch |-> <<>>, fault |-> 0, prior |-> <<>>, yaml |-> <<>>, environ |-> <<>>,
     exc |-> out.exc, msg |-> out.msg, result |-> out.result, log |-> out.log,
     before |-> before, follows |-> follows]

\* the caller between two calls: it holds no outcome, and follows tells
\* what the call before persisted
Ready(follows) ==
    Record("none", NoArg, NoArg, 0,
           Outcome(Db(<<>>, <<>>), "none", <<>>, <<>>, <<>>), <<>>, follows)

Init ==
    /\ backend \in {"astra", "postgresql"}
    /\ table = <<>>
    /\ txn = <<>>
    /\ callers = <<>>
    /\ python = Interpreters
    /\ last = Ready(<<>>)

IndexVectorOf(args) ==
    /\ last.op = "none" /\ last.prior = <<>>
    /\ \E vector \in args, metadata \in MetadataArgs, env \in IndexFaults(backend) :
        LET out == index_vector(backend, Db(table, txn), vector, metadata, env)
        IN  /\ Len(out.db.table) <= MaxRows
            /\ table' = out.db.table
            /\ txn' = out.db.txn
            /\ UNCHANGED <<callers, python>>
            /\ last' = Record("index_vector", vector, metadata, 0, out, table,
                              last.follows)
            /\ UNCHANGED backend

IndexVector == IndexVectorOf(VectorArgs)

QuerySimilarOf(args) ==
    /\ last.op = "none" /\ last.prior = <<>>
    /\ \E vector \in args, top_k \in -1..MaxTopK,
          env \in QueryFaults(backend, table) :
        \E outs \in {[py \in python |->
                          query_similar(backend, Db(table, txn), vector, top_k, env, py)]} :
          \E out \in {outs[py] : py \in python} :
            /\ table' = out.db.table
            /\ txn' = out.db.txn
            /\ python' = {py \in python : outs[py] = out}
            /\ UNCHANGED callers
            /\ last' = Record("query_similar", vector, NoArg, top_k, out, table,
                              last.follows)
            /\ UNCHANGED backend

QuerySimilar == QuerySimilarOf(VectorArgs)

\* the caller takes the outcome and goes on to its next call
Proceed ==
    /\ last.op # "none"
    /\ last' = Ready(Indexed(last))
    /\ UNCHANGED <<backend, table, txn, callers, python>>

Next == IndexVector \/ QuerySimilar \/ Proceed

Spec == Init /\ [][Next]_vars

(***************************************************************************)
(* Callers whose vectors hold large ints and floats.                       *)
(***************************************************************************)
IndexNumbers == IndexVectorOf(NumberArgs)

QueryNumbers == QuerySimilarOf(NumberArgs)

NextNumbers == IndexNumbers \/ QueryNumbers \/ Proceed

SpecNumbers == Init /\ [][NextNumbers]_vars

(***************************************************************************)
(* Repeated reads.  A caller that got an answer from query_similar calls   *)
(* it again with the same arguments; prior keeps what the first call       *)
(* returned and the rows the store handed to it.                           *)
(***************************************************************************)
\* what the call c returned, when c is a query_similar that returned
Queried(c) ==
    IF c.op = "query_similar" /\ c.exc = "none"
    THEN <<[vector |-> c.vector, top_k |-> c.top_k, result |-> c.result,
            rows |-> c.log[Len(c.log)].rows]>>
    ELSE <<>>

\* the caller takes the answer and goes on to ask again
ProceedToRepeat ==
    /\ last.op = "query_similar" /\ last.exc = "none"
    /\ last.prior = <<>>
    /\ last' = [Ready(<<>>) EXCEPT !.prior = Queried(last)]
    /\ UNCHANGED <<backend, table, txn, callers, python>>

QueryAgain ==
    /\ last.op = "none" /\ last.prior # <<>>
    /\ \E env \in QueryFaults(backend, table) :
        LET vector == last.prior[1].vector
            top_k  == last.prior[1].top_k
        IN  \E outs \in {[py \in python |->
                              query_similar(backend, Db(table, txn), vector, top_k, env, py)]} :
            \E out \in {outs[py] : py \in python} :
              /\ table' = out.db.table
              /\ txn' = out.db.txn
              /\ python' = {py \in python : outs[py] = out}
              /\ UNCHANGED callers
              /\ last' = [Record("query_similar", vector, NoArg, top_k, out, table, <<>>)
                             EXCEPT !.prior = last.prior]
              /\ UNCHANGED backend

NextRead == IndexVector \/ QuerySimilar \/ Proceed \/ ProceedToRepeat \/ QueryAgain

SpecRead == Init /\ [][NextRead]_vars

(***************************************************************************)
(* Batch indexing.  The batches are made of two records that index and two *)
(* that fail validation; the store fails at most at one element, since the *)
(* loop ends at the first element that raises.                             *)
(***************************************************************************)
Item(vector, metadata) == [vector |-> vector, metadata |-> metadata]

BatchItems ==
    {Item(ListOf(<<1, 0>>), PyDict({"id"}, "a")),
     Item(ListOf(<<0, 1>>), PyDict({"id"}, "b")),
     Item(PyList(<<Num(1), NonNumeric>>), PyDict({"id"}, "a")),
     Item(ListOf(<<1, 0>>), PyDict({"name"}, ""))}

Batches == UNION {[1..n -> BatchItems] : n \in 0..MaxBatch}

IndexVectors ==
    /\ last.op = "none" /\ last.prior = <<>>
    /\ \E batch \in Batches, fault \in 0..MaxBatch, env \in IndexFaults(backend) :
        LET envs == [i \in 1..Len(batch) |-> IF i = fault THEN env ELSE NoFault]
            out  == index_vectors(backend, Db(table, txn), batch, 1, envs)
        IN  /\ fault <= Len(batch)
            /\ (fault = 0) = (env = NoFault)
            \* the store fails at a call that is made: no element up to the
            \* faulty one is rejected by the validation
            /\ \A i \in 1..fault :
                  IsListOfNumbers(batch[i].vector) /\ IsDictWithId(batch[i].metadata)
            /\ Len(out.db.table) <= MaxBatch
            /\ table' = out.db.table
            /\ txn' = out.db.txn
            /\ UNCHANGED <<callers, python>>
            /\ last' = [Record("index_vectors", NoArg, NoArg, 0, out, table,
                               last.follows)
                           EXCEPT !.batch = batch, !.fault = fault]
            /\ UNCHANGED backend

NextBatch == IndexVectors \/ Proceed

SpecBatch == Init /\ [][NextBatch]_vars

\* callers that use the three operations: a batch loads the empty store,
\* single records are indexed and queries are made in any order
BatchLoad == table = <<>> /\ IndexVectors

NextAll == IndexVector \/ BatchLoad \/ QuerySimilar \/ Proceed

SpecAll == Init /\ [][NextAll]_vars

(***************************************************************************)
(* main: Config loads the YAML file and the environment, main selects the  *)
(* backend from config.database['type'], embeds the sample text, indexes   *)
(* the vector and queries with it; every exception is logged.              *)
(***************************************************************************)
PyNone == "None"

\* dict.get(k)
Get(d, k) == IF k \in DOMAIN d THEN d[k] ELSE PyNone

\* os.getenv(k, default)
Getenv(environ, k, default) == IF k \in DOMAIN environ THEN environ[k] ELSE default

\* self.config.get("postgresql", {}).get(k)
PostgresqlGet(yaml, k) ==
    IF "postgresql" \in DOMAIN yaml THEN Get(yaml["postgresql"], k) ELSE PyNone

\* Config.__init__: the sections database, astradb and postgresql are
\* rebuilt from the environment and the file, with the keys listed here
Config_init(yaml, environ) ==
    IF "database" \notin DOMAIN yaml
    THEN [exc |-> "KeyError", msg |-> <<"'database'">>, config |-> <<>>]
    ELSE [exc |-> "none", msg |-> <<>>,
          config |->
            [database |->
                [host |-> Getenv(environ, "DB_HOST", Get(yaml["database"], "host")),
                 port |-> Getenv(environ, "DB_PORT", Get(yaml["database"], "port")),
                 keyspace |-> Getenv(environ, "DB_KEYSPACE",
                                     Get(yaml["database"], "keyspace"))],
             astradb |->
                [keyspace |-> Getenv(environ, "ASTRADB_KEYSPACE", PyNone),
                 table |-> Getenv(environ, "ASTRADB_TABLE", PyNone),
                 username |-> Getenv(environ, "ASTRADB_USERNAME", PyNone),
                 password |-> Getenv(environ, "ASTRADB_PASSWORD", PyNone),
                 secure_connect_bundle |->
                     Getenv(environ, "ASTRADB_SECURE_CONNECT_BUNDLE", PyNone)],
             postgresql |->
                [host |-> Getenv(environ, "POSTGRESQL_HOST", PostgresqlGet(yaml, "host")),
                 port |-> Getenv(environ, "POSTGRESQL_PORT", PostgresqlGet(yaml, "port")),
                 database |-> Getenv(environ, "POSTGRESQL_DATABASE",
                                     PostgresqlGet(yaml, "database")),
                 username |-> Getenv(environ, "POSTGRESQL_USERNAME",
                                     PostgresqlGet(yaml, "username")),
                 password |-> Getenv(environ, "POSTGRESQL_PASSWORD",
                                     PostgresqlGet(yaml, "password"))]]]

SampleMetadata == PyDict({"id"}, "sample_id")

MainTopK == 5

\* what main leaves behind: the backend it constructed ("none" when it
\* constructed none), the store, the exception it logged and the store calls
MainOutcome(b, out) ==
    [backend |-> b, db |-> out.db, exc |-> out.exc, msg |-> out.msg,
     log |-> out.log, result |-> out.result]

\* main(): embedded is what embed_text returns, ienv and qenv are the
\* store's behaviour in index_vector and query_similar
main(yaml, environ, embedded, ienv, qenv, py) ==
    LET c == Config_init(yaml, environ)
        Logged(exc, msg) ==
            MainOutcome("none", Outcome(Db(<<>>, <<>>), exc, msg, <<>>, <<>>))
    IN  IF c.exc # "none" THEN Logged(c.exc, c.msg)
        ELSE IF "type" \notin DOMAIN c.config.database
        THEN Logged("KeyError", <<"'type'">>)
        ELSE LET t == c.config.database["type"]
             IN  IF t = "astra" /\ "host" \notin DOMAIN c.config.astradb
                 THEN Logged("KeyError", <<"'host'">>)
                 ELSE IF t \notin {"astra", "postgresql"}
                 THEN Logged("ValueError", <<"Unsupported database type">>)
                 ELSE LET ix == index_vector(t, Db(<<>>, <<>>), embedded,
                                             SampleMetadata, ienv)
                      IN  IF ix.exc # "none" THEN MainOutcome(t, ix)
                          ELSE MainOutcome(t, [query_similar(t, ix.db, embedded, MainTopK,
                                                             qenv, py)
                                                  EXCEPT !.log = ix.log \o @])

\* the YAML files: a database section with any of the keys type, host,
\* port and keyspace, or no database section at all
YamlValues ==
    [type |-> {"astra", "postgresql", "mysql"}, host |-> {"localhost"},
     port |-> {"9042"}, keyspace |-> {"VectorEmbeddingDB"}]

YamlDatabases ==
    UNION {{d \in [K -> UNION {YamlValues[k] : k \in K}] :
               \A k \in K : d[k] \in YamlValues[k]} :
           K \in SUBSET {"type", "host", "port", "keyspace"}}

Yamls ==
    {[database |-> d] : d \in YamlDatabases} \cup {[embedding_service |-> "openai"]}

Environs == UNION {[K -> {"from-env"}] : K \in SUBSET {"DB_HOST", "DB_PORT", "DB_KEYSPACE"}}

InitMain ==
    /\ backend = "none"
    /\ table = <<>>
    /\ txn = <<>>
    /\ callers = <<>>
    /\ python = Interpreters
    /\ last = Ready(<<>>)

Main ==
    /\ backend = "none" /\ last.op = "none"
    /\ \E yaml \in Yamls, environ \in Environs,
          embedded \in {ListOf(<<>>), ListOf(<<1, 0>>)},
          ienv \in IndexFaults("astra"),
          qenv \in {NoFault} \cup {Fault("execute", m, FALSE) : m \in Msgs} :
        \E outs \in {[py \in python |-> main(yaml, environ, embedded, ienv, qenv, py)]} :
          \E out \in {outs[py] : py \in python} :
            /\ backend' = out.backend
            /\ table' = out.db.table
            /\ txn' = out.db.txn
            /\ python' = {py \in python : outs[py] = out}
            /\ UNCHANGED callers
            /\ last' = [Record("main",
                               IF out.backend = "none" THEN NoArg ELSE embedded,
                               NoArg, 0, out, <<>>, <<>>)
                           EXCEPT !.yaml = yaml, !.environ = environ]

NextMain == Main

SpecMain == InitMain /\ [][NextMain]_vars

(***************************************************************************)
(* Two callers on one PostgreSQLSimilaritySearch instance.  The instance   *)
(* holds one connection (self.connection), so both calls work in the same  *)
(* open transaction; index_vector takes no lock.  Each call to the         *)
(* connection is one step, and the steps of the two callers interleave.    *)
(***************************************************************************)
Callers == {"t1", "t2"}

CallerVectors == {ListOf(<<1, 0>>), ListOf(<<0, 1>>), NotAList}

CallerMetadata == {PyDict({"id"}, i) : i \in Ids} \cup {NotADict}

\* a caller that has not called index_vector yet
Idle ==
    [pc |-> "idle", vector |-> NoArg, metadata |-> NoArg, e |-> "",
     exc |-> "none", msg |-> <<>>, log |-> <<>>]

\* the row the caller's INSERT carries
CallerRow(c) == [id |-> c.metadata.id, vector |-> Values(c.vector)]

\* the caller made a call to the connection: it succeeded and the caller
\* goes on at pc, or it raised and the caller is in the except clause
Called(c, call, env, pc) ==
    [c EXCEPT !.log = Append(@, call),
              !.pc = IF env.at = "none" THEN pc ELSE "rollback",
              !.e = env.msg]

\* the call ended: it returned (exc "none") or raised
Returned(c, exc, msg) == [c EXCEPT !.pc = "done", !.exc = exc, !.msg = msg]

StepFaults(at) == {NoFault} \cup {Fault(at, m, FALSE) : m \in Msgs}

RollbackFaults == {NoFault, Fault("rollback", RollbackMsg, TRUE)}

InitShared ==
    /\ backend = "postgresql"
    /\ table = <<>>
    /\ txn = <<>>
    /\ last = Ready(<<>>)
    /\ callers = [t \in Callers |-> Idle]
    /\ python = Interpreters

\* index_vector is called: the validation of the arguments
SharedCall ==
    \E t \in Callers, vector \in CallerVectors, metadata \in CallerMetadata :
        /\ callers[t].pc = "idle"
        /\ LET c == [callers[t] EXCEPT !.vector = vector, !.metadata = metadata]
           IN  callers' = [callers EXCEPT ![t] =
                   IF ~IsListOfNumbers(vector)
                   THEN Returned(c, "ValueError", VectorMsg)
                   ELSE IF ~IsDictWithId(metadata)
                   THEN Returned(c, "ValueError", MetadataMsg)
                   ELSE [c EXCEPT !.pc = "cursor"]]
        /\ UNCHANGED <<backend, table, txn, last, python>>

\* with self.connection.cursor() as cursor
SharedCursor ==
    \E t \in Callers, env \in StepFaults("cursor") :
        /\ callers[t].pc = "cursor"
        /\ callers' = [callers EXCEPT ![t] =
               Called(@, Call("cursor", "", <<>>, env, <<>>), env, "execute")]
        /\ UNCHANGED <<backend, table, txn, last, python>>

\* cursor.execute(query, (metadata["id"], vector))
SharedExecute ==
    \E t \in Callers, env \in StepFaults("execute") :
        /\ callers[t].pc = "execute"
        /\ LET row == CallerRow(callers[t])
               db  == IF env.at = "none" THEN Execute_insert(Db(table, txn), row)
                      ELSE Db(table, txn)
           IN  /\ callers' = [callers EXCEPT ![t] =
                      Called(@, Call("execute", "INSERT", <<row>>, env, <<>>),
                             env, "commit")]
               /\ table' = db.table
               /\ txn' = db.txn
        /\ UNCHANGED <<backend, last, python>>

\* self.connection.commit(), and the return of the call
SharedCommit ==
    \E t \in Callers, env \in StepFaults("commit") :
        /\ callers[t].pc = "commit"
        /\ LET db == IF env.at = "none" THEN Commit(Db(table, txn)) ELSE Db(table, txn)
               c  == Called(callers[t], Call("commit", "", <<>>, env, <<>>), env, "done")
           IN  /\ callers' = [callers EXCEPT ![t] =
                      IF env.at = "none" THEN Returned(c, "none", <<>>) ELSE c]
               /\ table' = db.table
               /\ txn' = db.txn
        /\ UNCHANGED <<backend, last, python>>

\* except Exception as e: self.connection.rollback(); raise RuntimeError
SharedRollback ==
    \E t \in Callers, env \in RollbackFaults :
        /\ callers[t].pc = "rollback"
        /\ LET db == Rollback(Db(table, txn))
               c  == [callers[t] EXCEPT
                         !.log = Append(@, Call("rollback", "", <<>>, env, <<>>))]
           IN  /\ callers' = [callers EXCEPT ![t] =
                      IF env.at = "rollback"
                      THEN Returned(c, "StoreError", <<RollbackMsg>>)
                      ELSE Returned(c, "RuntimeError",
                                    <<"Failed to index vector: ", c.e>>)]
               /\ table' = db.table
               /\ txn' = db.txn
        /\ UNCHANGED <<backend, last, python>>

NextShared ==
    SharedCall \/ SharedCursor \/ SharedExecute \/ SharedCommit \/ SharedRollback

SpecShared == InitShared /\ [][NextShared]_vars

(***************************************************************************)
(* Ranking of stores that hold records of equal similarity: the store      *)
(* holds up to MaxTieRows records, indexed earlier under ids of their own: *)
(* the vectors of TieVectors.  The relational store may also hold RunRows  *)
(* records of one vector followed by TailRows records of any: list.sort of *)
(* CPython 3.12 takes the equal scores as a run and inserts the others.    *)
(***************************************************************************)
MaxTieRows == 4

RunRows == 4

TailRows == 3

TieIds == <<"A", "B", "C", "D", "E", "F", "G", "H", "I">>

\* the tables index_vector builds from such records, in the order of the
\* calls
TieTables ==
    UNION {{[i \in 1..n |-> [id |-> TieIds[i], vector |-> v[i]]] :
               v \in [1..n -> TieVectors]} : n \in 0..MaxTieRows}

\* the tables that start with RunRows records of one vector
RunTables ==
    {[i \in 1..(RunRows + TailRows) |->
         [id |-> TieIds[i], vector |-> IF i <= RunRows THEN u ELSE w[i - RunRows]]] :
        u \in TieVectors, w \in [1..TailRows -> TieVectors]}

InitTies ==
    /\ backend \in {"astra", "postgresql"}
    /\ table \in TieTables \cup (IF backend = "postgresql" THEN RunTables ELSE {})
    /\ txn = <<>>
    /\ callers = <<>>
    /\ python = Interpreters
    /\ last = Ready(<<>>)

QueryTies == QuerySimilarOf(TieArgs)

NextTies == QueryTies \/ Proceed

SpecTies == InitTies /\ [][NextTies]_vars

(***************************************************************************)
(* Vocabulary of the properties.  They describe the arguments by what the  *)
(* caller passed, not by the validation operators of the model.            *)
(***************************************************************************)
NumericList(vector) ==
    vector.type = "list" /\ \A i \in DOMAIN vector.items :
                                vector.items[i].t \in {"int", "float"}

HasId(metadata) == metadata.type = "dict" /\ "id" \in metadata.keys

\* the call reached the store and no store call raised
StoreAnswered(c) == c.log # <<>> /\ \A i \in DOMAIN c.log : ~c.log[i].raised

\* the rows the store handed back to the call
Answer(c) == c.log[Len(c.log)].rows

Contacted(c) == c.log # <<>>

Min(a, b) == IF a < b THEN a ELSE b

\* no stored vector is empty
NonEmptyRows(rows) == \A i \in DOMAIN rows : rows[i].vector # <<>>

\* the rows have the dimension of v
AlignedRows(v, rows) == \A i \in DOMAIN rows : Len(rows[i].vector) = Len(v)

\* v is non-empty, of finite numbers that are not all zero: a vector the
\* specification calls valid, of nonzero norm
ValidVector(v) ==
    /\ v # <<>>
    /\ \A i \in DOMAIN v : v[i].cls \in {"zero", "num"}
    /\ \E i \in DOMAIN v : v[i].cls = "num"

\* the rows are valid vectors of the dimension of v
ValidRows(v, rows) ==
    \A i \in DOMAIN rows : ValidVector(rows[i].vector) /\ Len(rows[i].vector) = Len(v)

\* result is the first min(k, n) entries of the (id, similarity to v) pairs
\* of rows in descending order of similarity
IsTopK(result, rows, v, k) ==
    LET n == Len(rows)
        m == Min(k, n)
        sim(i) == cosine_similarity(v, rows[i].vector)
    IN  /\ Len(result) = m
        /\ \E f \in [1..m -> 1..n] :
              /\ \A i, j \in 1..m : i # j => f[i] # f[j]
              /\ \A i \in 1..m : result[i] = [id |-> rows[f[i]].id, score |-> sim(f[i])]
              /\ \A i, j \in 1..m : i < j => ~FlLt(result[i].score, result[j].score)
              /\ \A r \in 1..n : (\A i \in 1..m : f[i] # r) =>
                    \A i \in 1..m : ~FlLt(result[i].score, sim(r))

(***************************************************************************)
(* C1.  query_similar(v, 1) right after a successful                       *)
(* index_vector(v, {id: X}).                                               *)
(***************************************************************************)
C1Query ==
    /\ last.op = "query_similar" /\ last.top_k = 1
    /\ last.follows # <<>>
    /\ last.vector = PyList(last.follows[1].vector)
    /\ StoreAnswered(last)

\* C1: for every non-empty finite numeric v, query_similar(v, 1) immediately
\* after a successful index_vector(v, {id: X}) returns exactly [(X, 1.0)]
\* (here even for the vectors of nonzero norm only, in a store that holds
\* nothing but the record of X and hands it back).
C1_SelfSimilarityIsOne ==
    (/\ C1Query
     /\ ValidVector(last.follows[1].vector)
     /\ last.before = <<last.follows[1]>>
     /\ Answer(last) = last.before) =>
        /\ last.exc = "none"
        /\ last.result = <<[id |-> last.follows[1].id, score |-> FlOne]>>

(***************************************************************************)
(* C2.  Ranking of the relational backend.                                 *)
(***************************************************************************)
C2Query ==
    /\ backend = "postgresql"
    /\ last.op = "query_similar" /\ last.top_k >= 0
    /\ NumericList(last.vector) /\ last.vector.items # <<>>
    /\ StoreAnswered(last)

\* C2: for every valid query vector, every top_k >= 0 and every table
\* content, the relational query_similar returns the first min(top_k, n)
\* pairs (id, similarity) in descending order of similarity (here even for
\* the queries and the stored vectors that are valid, of nonzero norm and
\* of one dimension only).
C2_RankedTopK ==
    (/\ C2Query
     /\ ValidVector(Values(last.vector))
     /\ ValidRows(Values(last.vector), last.before)) =>
        /\ last.exc = "none"
        /\ IsTopK(last.result, last.before, Values(last.vector), last.top_k)

(***************************************************************************)
(* C3.  Validation errors of index_vector.                                 *)
(***************************************************************************)
C3Call ==
    /\ last.op = "index_vector"
    /\ \/ ~NumericList(last.vector)
       \/ ~HasId(last.metadata)

\* C3: on both backends index_vector raises ValueError when the vector is
\* not a list, when it holds a non-numeric element, when metadata is not a
\* dict and when metadata has no 'id' key (the vector is checked first).
C3_IndexValidation ==
    C3Call =>
        /\ last.exc = "ValueError"
        /\ last.msg = IF ~NumericList(last.vector) THEN VectorMsg ELSE MetadataMsg

\* C3's case happens: a numeric vector with a dict that lacks 'id', on the
\* wide-column backend
C3_Witness ==
    /\ C3Call /\ backend = "astra"
    /\ NumericList(last.vector) /\ last.metadata.type = "dict"
    /\ last.exc = "ValueError" /\ last.msg = MetadataMsg

(***************************************************************************)
(* C4.  The empty vector.                                                  *)
(***************************************************************************)
\* C4 as stated: on both backends index_vector with an empty vector and
\* valid metadata fails with ValueError and persists nothing, so that a
\* stored vector is never empty.
C4_EmptyRejected ==
    /\ (last.op = "index_vector" /\ last.vector = ListOf(<<>>) /\ HasId(last.metadata))
          => (last.exc = "ValueError" /\ table = last.before)
    /\ \A i \in DOMAIN table : table[i].vector # <<>>

(***************************************************************************)
(* C5.  Validation errors of query_similar.                                *)
(***************************************************************************)
C5Call ==
    /\ last.op = "query_similar"
    /\ \/ ~NumericList(last.vector)
       \/ last.vector.items = <<>>

\* C5: on both backends query_similar raises ValueError when the query
\* vector is empty, not a list or holds a non-numeric element, whatever
\* top_k is.
C5_QueryValidation ==
    C5Call =>
        /\ last.exc = "ValueError"
        /\ last.msg = IF ~NumericList(last.vector) THEN VectorMsg ELSE EmptyMsg

\* C5's case happens: the empty list with a negative top_k on the relational
\* backend holding a row
C5_Witness ==
    /\ C5Call /\ backend = "postgresql"
    /\ last.vector = ListOf(<<>>) /\ last.top_k = -1
    /\ table # <<>>
    /\ last.exc = "ValueError" /\ last.msg = EmptyMsg

(***************************************************************************)
(* C6.  Fail-fast validation.                                              *)
(***************************************************************************)
\* C6 as stated: a call of index_vector or query_similar that ends in
\* ValueError has executed no statement, issued no commit or rollback and
\* left the stored records unchanged; ValueError is never raised after the
\* store has been contacted in the call (here even with non-empty stored
\* vectors only).
C6_FailFast ==
    (/\ last.op \in {"index_vector", "query_similar"}
     /\ last.exc = "ValueError"
     /\ NonEmptyRows(last.before)) =>
        /\ ~Contacted(last)
        /\ table = last.before
        /\ txn = <<>>

(***************************************************************************)
(* C7.  Wrapping of the failures of the insert.                            *)
(***************************************************************************)
\* C7 as stated: on both backends, when the insert raises, index_vector
\* raises RuntimeError with the message 'Failed to index vector: ' followed
\* by the message of the original exception, which never reaches the
\* caller in another form (here even with non-empty vectors only).
C7_InsertWrapped ==
    \A i \in DOMAIN last.log :
        (/\ last.op = "index_vector" /\ last.vector.items # <<>>
         /\ last.log[i].stmt = "INSERT" /\ last.log[i].raised) =>
            /\ last.exc = "RuntimeError"
            /\ last.msg = <<"Failed to index vector: ", last.log[i].msg>>

(***************************************************************************)
(* C8.  Rollback of the relational backend.                                *)
(***************************************************************************)
C8Call ==
    /\ backend = "postgresql"
    /\ last.op = "index_vector"
    /\ last.exc = "RuntimeError"

\* C8: on the relational backend, when index_vector fails with RuntimeError
\* the last call made on the connection is a rollback, the committed rows
\* are the ones from before the call and no row of the failed insert is
\* left for a later query to read.
C8_RolledBack ==
    C8Call =>
        /\ last.log[Len(last.log)].call = "rollback"
        /\ ~last.log[Len(last.log)].raised
        /\ \A i \in 1..(Len(last.log) - 1) : last.log[i].call # "commit" \/ last.log[i].raised
        /\ table = last.before
        /\ txn = <<>>
        /\ Fetchall(Db(table, txn)) = last.before

\* C8's case happens: the INSERT was executed in the transaction, the commit
\* raised, and a table that held a row before holds that row only
C8_Witness ==
    /\ C8Call
    /\ \E i \in DOMAIN last.log : last.log[i].stmt = "INSERT" /\ ~last.log[i].raised
    /\ \E i \in DOMAIN last.log : last.log[i].call = "commit" /\ last.log[i].raised
    /\ Len(last.before) = 1
    /\ table = last.before

(***************************************************************************)
(* C9.  Batch indexing stops at the first failure.                         *)
(***************************************************************************)
\* element j of the batch fails: its arguments are invalid or the store
\* fails at it
Fails(c, j) ==
    \/ ~NumericList(c.batch[j].vector)
    \/ ~HasId(c.batch[j].metadata)
    \/ c.fault = j

\* the first failing element, Len + 1 when none fails
FirstFailing(c) ==
    IF \E j \in DOMAIN c.batch : Fails(c, j)
    THEN CHOOSE j \in DOMAIN c.batch :
            Fails(c, j) /\ \A k \in 1..(j - 1) : ~Fails(c, k)
    ELSE Len(c.batch) + 1

RowOf(item) == [id |-> item.metadata.id, vector |-> Values(item.vector)]

Inserts(c) == SelectSeq(c.log, LAMBDA e : e.stmt = "INSERT")

\* C9: index_vectors indexes the records in input order and stops at the
\* first failing element i: it raises (ValueError when i fails validation),
\* the rows of the elements before i are persisted in order, no INSERT is
\* attempted for an element after i, and without a failing element it
\* returns with every row persisted.
C9_BatchStopsAtFirstFailure ==
    last.op = "index_vectors" =>
        LET i   == FirstFailing(last)
            ins == Inserts(last)
        IN  /\ (i <= Len(last.batch)) = (last.exc # "none")
            /\ (i <= Len(last.batch) /\ last.fault # i) => last.exc = "ValueError"
            /\ Len(ins) \in {i - 1, i} /\ Len(ins) <= Len(last.batch)
            /\ (Len(ins) = i) => last.fault = i
            /\ \A k \in DOMAIN ins : ins[k].params = <<RowOf(last.batch[k])>>
            /\ \A k \in 1..(i - 1) : ~ins[k].raised
            /\ \A k \in 1..(i - 1) : \E r \in DOMAIN table : table[r] = RowOf(last.batch[k])
            /\ \A r \in DOMAIN table :
                  \/ \E q \in DOMAIN last.before : last.before[q] = table[r]
                  \/ \E k \in 1..(i - 1) : table[r] = RowOf(last.batch[k])
            /\ backend = "postgresql" =>
                  table = last.before \o [k \in 1..(i - 1) |-> RowOf(last.batch[k])]
            /\ txn = <<>>

\* C9's case happens: [ok, ok, invalid, ok] on an empty relational table
\* raises ValueError and leaves the first two rows
C9_Witness ==
    /\ last.op = "index_vectors" /\ backend = "postgresql"
    /\ Len(last.batch) = 4 /\ last.fault = 0
    /\ FirstFailing(last) = 3
    /\ ~NumericList(last.batch[3].vector)
    /\ ~Fails(last, 4)
    /\ last.before = <<>>
    /\ last.exc = "ValueError"
    /\ table = <<RowOf(last.batch[1]), RowOf(last.batch[2])>>
    /\ table[1] # table[2]

(***************************************************************************)
(* C10.  Querying an empty store.                                          *)
(***************************************************************************)
C10Query ==
    /\ last.op = "query_similar"
    /\ NumericList(last.vector) /\ last.vector.items # <<>>
    /\ last.before = <<>>
    /\ StoreAnswered(last)

\* C10: on both backends query_similar with a valid non-empty vector on a
\* store that holds no row (and answers the query) returns the empty
\* sequence and does not raise, whatever top_k is.
C10_EmptyStore ==
    C10Query => (last.exc = "none" /\ last.result = <<>>)

\* C10's case happens: a negative top_k on the wide-column backend
C10_Witness ==
    /\ C10Query /\ backend = "astra"
    /\ last.top_k = -1
    /\ last.exc = "none" /\ last.result = <<>>

(***************************************************************************)
(* C11.  top_k <= 0.                                                       *)
(***************************************************************************)
C11Query ==
    /\ last.op = "query_similar" /\ last.top_k <= 0
    /\ NumericList(last.vector) /\ last.vector.items # <<>>
    /\ StoreAnswered(last)

\* C11: on both backends, for every top_k <= 0 and every valid query vector
\* (the store answering the query), query_similar raises only when a row
\* handed back has another dimension than the query, whatever top_k is;
\* otherwise it returns the empty sequence for top_k = 0 and all but the
\* last -top_k ranked rows for top_k < 0, never more entries than there are
\* stored records.
C11_NonPositiveTopK ==
    C11Query =>
        LET rows == Answer(last)
            v    == Values(last.vector)
        IN  IF \E i \in DOMAIN rows : Len(rows[i].vector) # Len(v)
            THEN last.exc = "ValueError" /\ last.msg = ShapesMsg
            ELSE /\ last.exc = "none"
                 /\ Len(last.result) <= Len(last.before)
                 /\ last.top_k = 0 => last.result = <<>>
                 /\ last.top_k < 0 =>
                       Len(last.result) = IF Len(rows) + last.top_k > 0
                                          THEN Len(rows) + last.top_k ELSE 0

\* C11's case happens: top_k = -1 on two stored rows returns one entry
C11_Witness ==
    /\ C11Query /\ last.top_k = -1
    /\ Len(last.before) = 2 /\ Len(Answer(last)) = 2
    /\ last.exc = "none"
    /\ Len(last.result) = 1

(***************************************************************************)
(* C12.  Reads are idempotent.                                             *)
(***************************************************************************)
C12Repeat ==
    /\ last.op = "query_similar" /\ last.prior # <<>>
    /\ StoreAnswered(last)
    /\ backend = "astra" => Answer(last) = last.prior[1].rows

\* C12: a query_similar that follows a query_similar with the same vector
\* and top_k, no index_vector in between, returns the sequence the first
\* one returned: same ids, same scores, same order (on the wide-column
\* backend: when the store answers the same statement with the same rows).
C12_ReadsIdempotent ==
    C12Repeat =>
        /\ last.vector = last.prior[1].vector /\ last.top_k = last.prior[1].top_k
        /\ Answer(last) = last.prior[1].rows
        /\ last.exc = "none"
        /\ last.result = last.prior[1].result
        /\ table = last.before

\* C12's case happens: the second of two relational queries returns the
\* same two ranked entries as the first
C12_Witness ==
    /\ C12Repeat /\ backend = "postgresql"
    /\ last.exc = "none"
    /\ Len(last.result) = 2
    /\ last.result = last.prior[1].result
    /\ last.result[1].id # last.result[2].id

(***************************************************************************)
(* C13.  Ranking with ties.                                                *)
(***************************************************************************)
\* x == y on floats: False whenever one of them is nan
FlEq(x, y) == x.cls # "nan" /\ y.cls # "nan" /\ ~FlLt(x, y) /\ ~FlLt(y, x)

\* the place of the record id among rows
Place(rows, id) == CHOOSE i \in DOMAIN rows : rows[i].id = id

\* records of equal score are in the result in the order of rows, and a
\* record left out does not precede, in rows, a returned one of its score
KeepsOrder(result, rows, v) ==
    /\ \A i, j \in DOMAIN result :
          (i < j /\ FlEq(result[i].score, result[j].score))
              => Place(rows, result[i].id) < Place(rows, result[j].id)
    /\ \A i \in DOMAIN result : \A r \in DOMAIN rows :
          (/\ \A j \in DOMAIN result : result[j].id # rows[r].id
           /\ FlEq(cosine_similarity(v, rows[r].vector), result[i].score))
              => Place(rows, result[i].id) < r

C13Query ==
    /\ last.op = "query_similar" /\ last.top_k >= 0
    /\ NumericList(last.vector)
    /\ StoreAnswered(last)

\* C13: with A=[1,0], B=[0,1], C=[1,0] returned in this order, the query
\* [1,0] and top_k = 2 return A then C, both at 1.0, and not B; and in
\* general records of equal score keep, in the result, the order in which
\* the store returned their rows (here even for the queries and the rows
\* that are valid, of nonzero norm and of one dimension only).
C13_StableTies ==
    (/\ C13Query
     /\ ValidVector(Values(last.vector))
     /\ ValidRows(Values(last.vector), Answer(last))) =>
        /\ last.exc = "none"
        /\ KeepsOrder(last.result, Answer(last), Values(last.vector))
        /\ (/\ Answer(last) = <<[id |-> "A", vector |-> Ints(<<1, 0>>)],
                                [id |-> "B", vector |-> Ints(<<0, 1>>)],
                                [id |-> "C", vector |-> Ints(<<1, 0>>)]>>
            /\ last.vector = ListOf(<<1, 0>>) /\ last.top_k = 2)
           => last.result = <<[id |-> "A", score |-> FlOne], [id |-> "C", score |-> FlOne]>>

(***************************************************************************)
(* C14.  No retries.                                                       *)
(***************************************************************************)
Statements(c, stmt) == SelectSeq(c.log, LAMBDA e : e.stmt = stmt)

C14Call ==
    /\ last.op \in {"index_vector", "query_similar"}
    /\ Contacted(last)

\* C14: on both backends a call of index_vector issues at most one INSERT
\* and no SELECT, a call of query_similar at most one SELECT and no INSERT;
\* when a call to the store raises, the call ends with an error and issues
\* no statement after it (only the relational rollback follows).
C14_NoRetry ==
    C14Call =>
        /\ last.op = "index_vector" =>
              Len(Statements(last, "INSERT")) <= 1 /\ Statements(last, "SELECT") = <<>>
        /\ last.op = "query_similar" =>
              Len(Statements(last, "SELECT")) <= 1 /\ Statements(last, "INSERT") = <<>>
        /\ \A i \in DOMAIN last.log : last.log[i].raised =>
              /\ last.exc # "none"
              /\ \A j \in (i + 1)..Len(last.log) :
                    last.log[j].stmt = "" /\ last.log[j].call = "rollback"

\* C14's case happens: the INSERT of the wide-column backend raises, and the
\* call ends in RuntimeError after that one statement
C14_Witness ==
    /\ C14Call /\ backend = "astra" /\ last.op = "index_vector"
    /\ Len(last.log) = 1 /\ last.log[1].stmt = "INSERT" /\ last.log[1].raised
    /\ last.exc = "RuntimeError"

(***************************************************************************)
(* C15.  Record lifecycle.                                                 *)
(***************************************************************************)
\* C15: over the calls of index_vector, index_vectors and query_similar in
\* any order, query_similar leaves the stored records unchanged, the only
\* statements issued are INSERT and SELECT (no update, no delete), and the
\* stored records change only in an indexing call whose INSERT was executed.
C15_Lifecycle ==
    /\ last.op = "query_similar" => (table = last.before /\ txn = <<>>)
    /\ \A i \in DOMAIN last.log :
          /\ last.log[i].stmt \in {"", "INSERT", "SELECT"}
          /\ last.log[i].stmt = "INSERT" => last.op \in {"index_vector", "index_vectors"}
          /\ last.log[i].stmt = "SELECT" => last.op = "query_similar"
    /\ (last.op # "none" /\ table # last.before) =>
          /\ last.op \in {"index_vector", "index_vectors"}
          /\ \E i \in DOMAIN last.log : last.log[i].stmt = "INSERT" /\ ~last.log[i].raised

\* C15's case happens: a query that ranked the three rows a batch had
\* stored returns and the table still holds them
C15_Witness ==
    /\ last.op = "query_similar" /\ backend = "postgresql"
    /\ StoreAnswered(last) /\ last.exc = "none"
    /\ Len(last.before) = 3 /\ Len(last.result) = 2
    /\ table = last.before

(***************************************************************************)
(* C16.  Wrapping of the failures of the select.                           *)
(***************************************************************************)
\* C16 as stated: on both backends, when the store call made by
\* query_similar raises, the caller receives a RuntimeError that carries
\* the message of the original exception.
C16_SelectWrapped ==
    \A i \in DOMAIN last.log :
        (last.op = "query_similar" /\ last.log[i].raised) =>
            /\ last.exc = "RuntimeError"
            /\ last.msg # <<>>
            /\ last.msg[Len(last.msg)] = last.log[i].msg

(***************************************************************************)
(* C17.  Transaction protocol of the relational index_vector.              *)
(***************************************************************************)
CallsOf(c) == [i \in DOMAIN c.log |-> c.log[i].call]

\* C17 as stated: a relational index_vector that passed validation ends
\* either with cursor, execute, commit and a normal return, or, when the
\* cursor, the execute or the commit raised, with exactly one rollback
\* after the failing call and RuntimeError; commit is never issued after a
\* failed execute and a successful commit is never followed by a rollback
\* (here even with non-empty vectors only).
C17_Protocol ==
    (/\ backend = "postgresql" /\ last.op = "index_vector"
     /\ Contacted(last) /\ last.vector.items # <<>>) =>
        LET n == Len(last.log)
        IN  \/ /\ CallsOf(last) = <<"cursor", "execute", "commit">>
               /\ \A i \in 1..n : ~last.log[i].raised
               /\ last.exc = "none"
            \/ /\ CallsOf(last) \in {<<"cursor", "rollback">>,
                                     <<"cursor", "execute", "rollback">>,
                                     <<"cursor", "execute", "commit", "rollback">>}
               /\ \A i \in 1..(n - 2) : ~last.log[i].raised
               /\ last.log[n - 1].raised
               /\ last.exc = "RuntimeError"

(***************************************************************************)
(* C18.  Query of the wide-column backend.                                 *)
(***************************************************************************)
C18Query ==
    /\ backend = "astra"
    /\ last.op = "query_similar" /\ last.top_k >= 0
    /\ NumericList(last.vector) /\ last.vector.items # <<>>
    /\ StoreAnswered(last)

\* C18: the wide-column query_similar issues exactly one statement and, for
\* top_k >= 0, returns the first top_k of the rows that statement
\* returned, ranked by descending similarity, whatever the rows and their
\* order (here even for the queries and the returned rows that are valid,
\* of nonzero norm and of one dimension only).
C18_AnnRerank ==
    (/\ C18Query
     /\ ValidVector(Values(last.vector))
     /\ ValidRows(Values(last.vector), Answer(last))) =>
        /\ Len(last.log) = 1 /\ last.log[1].stmt = "SELECT"
        /\ last.exc = "none"
        /\ Len(last.result) <= last.top_k
        /\ IsTopK(last.result, Answer(last), Values(last.vector), last.top_k)

(***************************************************************************)
(* C19.  Backend selection in main.                                        *)
(***************************************************************************)
\* C19 as stated: with a configuration loaded by Config from a file whose
\* database type is 'astra' main constructs the wide-column backend, with
\* 'postgresql' the relational one, and with any other type it fails with
\* 'Unsupported database type'.
C19_Selection ==
    (/\ last.op = "main"
     /\ "database" \in DOMAIN last.yaml
     /\ "type" \in DOMAIN last.yaml["database"]) =>
        LET t == last.yaml["database"]["type"]
        IN  /\ t = "astra" => backend = "astra"
            /\ t = "postgresql" => backend = "postgresql"
            /\ t \notin {"astra", "postgresql"} =>
                  /\ backend = "none"
                  /\ last.exc = "ValueError"
                  /\ last.msg = <<"Unsupported database type">>

(***************************************************************************)
(* C20.  Validation of writes and reads agrees.                            *)
(***************************************************************************)
\* C20 as stated: a query_similar whose vector is the one the preceding
\* index_vector accepted and persisted on the same backend is never
\* rejected by the validation of its arguments (an exception raised before
\* the store is contacted).
C20_ValidationAgrees ==
    (/\ last.op = "query_similar"
     /\ last.follows # <<>>
     /\ last.vector = PyList(last.follows[1].vector)) =>
        ~(last.exc # "none" /\ ~Contacted(last))

(***************************************************************************)
(* C21.  Concurrent writers on one relational backend instance.            *)
(***************************************************************************)
\* the caller's arguments passed the validation: its call carries a row
HasRow(c) == c.pc # "idle" /\ IsListOfNumbers(c.vector) /\ IsDictWithId(c.metadata)

\* the callers index records of different ids
DistinctRecords ==
    \A t, u \in Callers :
        (t # u /\ HasRow(callers[t]) /\ HasRow(callers[u])) =>
            callers[t].metadata.id # callers[u].metadata.id

\* the caller's record is among the committed rows
Committed(c) == \E i \in 1..Len(table) : table[i] = CallerRow(c)

\* C21 as stated: when two callers run index_vector on one relational
\* instance, in any interleaving of their steps, every call that returned
\* normally has its record committed and every call that raised
\* RuntimeError (the storage error) has no record committed.
C21_SharedConnection ==
    DistinctRecords =>
        \A t \in Callers :
            (callers[t].pc = "done" /\ HasRow(callers[t])) =>
                /\ callers[t].exc = "none" => Committed(callers[t])
                /\ callers[t].exc = "RuntimeError" => ~Committed(callers[t])

====
